---- MODULE Spec2Model ----
(***************************************************************************)
(* Model of the tailored-API-response backend.  The repository holds two   *)
(* implementations of the same service:                                    *)
(*   "app"  backend/app/{storage,security,main}.py   (MemoryUserStore,     *)
(*          python-jose, SHA-256 credentials)                              *)
(*   "api"  backend/src/api/...                      (InMemoryDB, PyJWT,   *)
(*          PBKDF2 credentials)                                            *)
(* The variable impl says which of the two is deployed; every handler is   *)
(* translated from the file of that implementation.                        *)
(***************************************************************************)
EXTENDS Integers, FiniteSets, Sequences, TLC

VARIABLES impl, env, db, now, held, created, th

vars == <<impl, env, db, now, held, created, th>>

----------------------------------------------------------------------------
(* Bounds of the model *)

MaxUsers == 2
MaxTime == 2

(* Program constants *)

AppDefaultTtl == 1440
ApiDefaultTtl == 60

----------------------------------------------------------------------------
(* Values *)

None == "None"
Impls == {"app", "api"}
Names == {"a", "b"}
Passwords == {"secret1", "secret2"}
Tiers == {"free", "pro", "enterprise"}
Ids == 1..MaxUsers
Threads == {1, 2}

\* A raw e-mail string: its lower-cased, trimmed text, whether it is written
\* with upper-case letters, and whether it has surrounding whitespace.
Email(name, upper, pad) == [name |-> name, upper |-> upper, pad |-> pad]
RawEmails == {Email("a", FALSE, FALSE), Email("a", TRUE, FALSE), Email("a", FALSE, TRUE),
              Email("b", FALSE, FALSE)}

\* str.lower()
Lower(e) == [e EXCEPT !.upper = FALSE]

\* str.strip()
Strip(e) == [e EXCEPT !.pad = FALSE]

\* pydantic's EmailStr validation trims the text it is given
EmailStr(e) == Strip(e)

\* Tier strings a client can send to the "app" variant, whose handlers take
\* the tier as a plain string.
TierStrings == Tiers \cup {"Pro", "gold"}

\* str.lower() on a tier string
TierLower(t) == IF t = "Pro" THEN "pro" ELSE t

\* Values of the ACCESS_TOKEN_EXPIRE_MINUTES override
TtlOverrides == {"1"}

\* int(text) of an ACCESS_TOKEN_EXPIRE_MINUTES value
IntOf(text) == IF text = "1" THEN 1 ELSE 2
SecretValues == {"k1"}

----------------------------------------------------------------------------
(* Credential hashing *)

\* bytes.hex() and bytes.fromhex() on a one-byte salt
Hex(b) == <<b \div 16, b % 16>>
\* (faulty variant: the two digits of a byte read in the wrong order)
FromHex_swapped(h) == h[2] * 16 + h[1]
FromHex(h) == h[1] * 16 + h[2]

\* app: hashlib.sha256(password).hexdigest()
UserRecord_hash_password(pw) == <<"sha256", pw>>

\* api: hashlib.pbkdf2_hmac("sha256", password, salt, 100_000, dklen=32).hex()
Api_hash_password(pw, salt) == <<"pbkdf2", pw, salt>>

----------------------------------------------------------------------------
(* The user table.  obj is the heap of user records, keyed by the record's *)
(* id; by_email maps a key to the id of the record it refers to; by_id is  *)
(* the set of ids that are keys of the id table.  next_id stands for the   *)
(* uuid4 generator: every call yields a value never produced before.       *)

NoRec == [id |-> 0]

EmptyDB == [by_email |-> <<>>, by_id |-> {}, obj |-> [i \in Ids |-> NoRec], next_id |-> 1]

\* dict[key] = value
Put(f, k, v) == (k :> v) @@ f

\* uuid.uuid4() has a fresh value left within the bound
CanAlloc(d) == d.next_id <= MaxUsers

\* app: UserRecord.__init__
UserRecord(id, email, password_plain, package_tier) ==
    [id |-> id,
     email |-> Strip(Lower(email)),
     salt_hex |-> None,
     hashed_password |-> UserRecord_hash_password(password_plain),
     package_tier |-> package_tier]

\* app: UserRecord.verify_password
UserRecord_verify_password(user, password_plain) ==
    user.hashed_password = UserRecord_hash_password(password_plain)

\* (faulty variant: the key is trimmed but not lower-cased)
App_email_key_not_lowered(email) == Strip(email)

\* app: MemoryUserStore.create_user, line by line.  The key, and the test
\* "email_key in self._by_email"
App_email_key(email) == Strip(Lower(email))
App_email_taken(d, email) == App_email_key(email) \in DOMAIN d.by_email

\* user = UserRecord(...): a new object on the heap, in neither index yet
App_new_user(d, email, password_plain, package_tier) ==
    LET user == UserRecord(d.next_id, App_email_key(email), password_plain,
                           IF package_tier \in {None, ""} THEN "free" ELSE package_tier)
    IN [db |-> [d EXCEPT !.obj[user.id] = user, !.next_id = @ + 1], user |-> user]

\* self._by_email[email_key] = user
App_put_by_email(d, email, user) ==
    [d EXCEPT !.by_email = Put(@, App_email_key(email), user.id)]

\* self._by_id[user.id] = user
App_put_by_id(d, user) == [d EXCEPT !.by_id = @ \cup {user.id}]

\* app: MemoryUserStore.create_user; package_tier is None when omitted
MemoryUserStore_create_user(d, email, password_plain, package_tier) ==
    IF App_email_taken(d, email)
    THEN [db |-> d, err |-> "ValueError", user |-> NoRec]
    ELSE LET n == App_new_user(d, email, password_plain, package_tier)
         IN [db |-> App_put_by_id(App_put_by_email(n.db, email, n.user), n.user),
             err |-> None, user |-> n.user]

\* app: MemoryUserStore.get_by_email
MemoryUserStore_get_by_email(d, email) ==
    LET k == Strip(Lower(email)) IN
    IF k \in DOMAIN d.by_email THEN d.obj[d.by_email[k]] ELSE NoRec

\* app: MemoryUserStore.get_by_id
MemoryUserStore_get_by_id(d, user_id) ==
    IF user_id \in d.by_id THEN d.obj[user_id] ELSE NoRec

\* (faulty variant: the password is not verified)
MemoryUserStore_authenticate_unverified(d, email, password_plain) ==
    MemoryUserStore_get_by_email(d, email)

\* app: MemoryUserStore.authenticate
MemoryUserStore_authenticate(d, email, password_plain) ==
    LET user == MemoryUserStore_get_by_email(d, email) IN
    IF user = NoRec THEN NoRec
    ELSE IF ~UserRecord_verify_password(user, password_plain) THEN NoRec
    ELSE user

\* (faulty variant: a call that names the tier the record has returns None)
MemoryUserStore_update_plan_changed_only(d, user_id, package_tier) ==
    LET user == MemoryUserStore_get_by_id(d, user_id) IN
    IF user = NoRec \/ user.package_tier = package_tier THEN [db |-> d, user |-> NoRec]
    ELSE LET u2 == [user EXCEPT !.package_tier = package_tier] IN
         [db |-> [d EXCEPT !.obj[user.id] = u2], user |-> u2]

\* app: MemoryUserStore.update_plan
MemoryUserStore_update_plan(d, user_id, package_tier) ==
    LET user == MemoryUserStore_get_by_id(d, user_id) IN
    IF user = NoRec THEN [db |-> d, user |-> NoRec]
    ELSE LET u2 == [user EXCEPT !.package_tier = package_tier] IN
         [db |-> [d EXCEPT !.obj[user.id] = u2], user |-> u2]

\* os.urandom(16): like uuid4, a value no earlier call returned (one byte here)
urandom(d) == 16 * d.next_id + 3

\* api: InMemoryDB.create_user, line by line.  The record, a local value
Api_new_record(d, email, password, package_tier) ==
    LET salt == urandom(d) IN
    [db |-> [d EXCEPT !.next_id = @ + 1],
     user |-> [id |-> d.next_id,
               email |-> Lower(email),
               salt_hex |-> Hex(salt),
               hashed_password |-> Api_hash_password(password, salt),
               package_tier |-> package_tier]]

\* self.users[user_id] = record
Api_put_users(d, record) ==
    [d EXCEPT !.obj[record.id] = record, !.by_id = @ \cup {record.id}]

\* self.email_index[email.lower()] = user_id
Api_put_email_index(d, email, record) ==
    [d EXCEPT !.by_email = Put(@, Lower(email), record.id)]

\* api: InMemoryDB.create_user
InMemoryDB_create_user(d, email, password, package_tier) ==
    LET n == Api_new_record(d, email, password, package_tier)
    IN [db |-> Api_put_email_index(Api_put_users(n.db, n.user), email, n.user),
        err |-> None, user |-> n.user]

\* api: InMemoryDB.get_user_by_id
InMemoryDB_get_user_by_id(d, user_id) ==
    IF user_id \in d.by_id THEN d.obj[user_id] ELSE NoRec

\* api: InMemoryDB.get_user_by_email
InMemoryDB_get_user_by_email(d, email) ==
    LET k == Lower(email) IN
    IF k \notin DOMAIN d.by_email THEN NoRec
    ELSE InMemoryDB_get_user_by_id(d, d.by_email[k])

\* api: InMemoryDB.verify_password
InMemoryDB_verify_password(d, email, password) ==
    LET u == InMemoryDB_get_user_by_email(d, email) IN
    IF u = NoRec THEN NoRec
    ELSE LET salt == FromHex(u.salt_hex)
             candidate_hash == Api_hash_password(password, salt)
         IN IF u.hashed_password = candidate_hash THEN u ELSE NoRec

\* (faulty variant: the tier is written to every record of the table)
InMemoryDB_set_package_all(d, user_id, package_tier) ==
    LET u == InMemoryDB_get_user_by_id(d, user_id) IN
    IF u = NoRec THEN [db |-> d, user |-> NoRec]
    ELSE [db |-> [d EXCEPT !.obj = [i \in Ids |->
                       IF i \in d.by_id THEN [d.obj[i] EXCEPT !.package_tier = package_tier]
                       ELSE d.obj[i]]],
          user |-> [u EXCEPT !.package_tier = package_tier]]

\* api: InMemoryDB.set_package
InMemoryDB_set_package(d, user_id, package_tier) ==
    LET u == InMemoryDB_get_user_by_id(d, user_id) IN
    IF u = NoRec THEN [db |-> d, user |-> NoRec]
    ELSE LET u2 == [u EXCEPT !.package_tier = package_tier] IN
         [db |-> [d EXCEPT !.obj[u.id] = u2], user |-> u2]

\* The records of the table (the values of the id table)
Records(d) == {d.obj[i] : i \in d.by_id}

----------------------------------------------------------------------------
(* Token service.  A token is the signed payload; the signature is an HMAC *)
(* of the payload under the key, so it verifies only under the same key    *)
(* and for the same payload.                                               *)

Hmac(key, payload) == <<key, payload>>

\* jwt.encode(payload, key)
jwt_encode(payload, key) == [kind |-> "jwt", payload |-> payload, sig |-> Hmac(key, payload)]

Garbage == [kind |-> "garbage"]

SignatureOk(token, key) == token.kind = "jwt" /\ token.sig = Hmac(key, token.payload)

\* app: get_jwt_config; e.secret is JWT_SECRET_KEY, e.ttl is ACCESS_TOKEN_EXPIRE_MINUTES
get_jwt_config(e) ==
    IF e.secret \in {None, ""}
    THEN [err |-> "RuntimeError"]
    ELSE [err |-> None, secret |-> e.secret,
          ttl_minutes |-> IF e.ttl = None THEN AppDefaultTtl ELSE IntOf(e.ttl)]

\* app: create_access_token(user=...)
App_create_access_token(e, t, user) ==
    LET cfg == get_jwt_config(e) IN
    IF cfg.err # None THEN [err |-> cfg.err]
    ELSE [err |-> None,
          token |-> jwt_encode([sub |-> user.id, email |-> user.email,
                                package_tier |-> user.package_tier,
                                iat |-> t, exp |-> t + cfg.ttl_minutes], cfg.secret)]

\* python-jose jwt.decode: the signature, then exp (expired when exp < now)
jose_expired(exp, t) == exp < t

\* app: decode_token
App_decode_token(e, t, token) ==
    LET cfg == get_jwt_config(e) IN
    IF cfg.err # None THEN [err |-> cfg.err]
    ELSE IF ~SignatureOk(token, cfg.secret) THEN [err |-> "JWTError"]
    ELSE IF jose_expired(token.payload.exp, t) THEN [err |-> "JWTError"]
    ELSE [err |-> None, payload |-> token.payload]

\* api: JWT_SECRET = os.getenv("JWT_SECRET", "change_me_local_dev_secret")
JWT_SECRET(e) == IF e.secret = None THEN "change_me_local_dev_secret" ELSE e.secret

\* api: ACCESS_TOKEN_EXPIRE_MINUTES = int(os.getenv(..., "60"))
ACCESS_TOKEN_EXPIRE_MINUTES(e) == IF e.ttl = None THEN ApiDefaultTtl ELSE IntOf(e.ttl)

\* (faulty variant: the tier claim is not the user's tier)
Api_create_access_token_free(e, t, subject, pkg) ==
    [err |-> None,
     token |-> jwt_encode([sub |-> subject, iat |-> t,
                           exp |-> t + ACCESS_TOKEN_EXPIRE_MINUTES(e), pkg |-> "free"],
                          JWT_SECRET(e))]

\* api: create_access_token(subject, additional_claims)
Api_create_access_token(e, t, subject, pkg) ==
    [err |-> None,
     token |-> jwt_encode([sub |-> subject, iat |-> t,
                           exp |-> t + ACCESS_TOKEN_EXPIRE_MINUTES(e), pkg |-> pkg],
                          JWT_SECRET(e))]

\* PyJWT jwt.decode: the signature, then exp (expired when exp <= now)
pyjwt_expired(exp, t) == exp <= t

\* api: decode_token
Api_decode_token(e, t, token) ==
    IF ~SignatureOk(token, JWT_SECRET(e)) THEN [err |-> "PyJWTError"]
    ELSE IF pyjwt_expired(token.payload.exp, t) THEN [err |-> "PyJWTError"]
    ELSE [err |-> None, payload |-> token.payload]

----------------------------------------------------------------------------
(* Session resolver *)

Unauthorized(detail) == [err |-> "HTTPException", status |-> 401, detail |-> detail]

\* (faulty variant: an unknown user is reported apart from a bad token)
App_get_current_user_leaky(d, e, t, token) ==
    LET credentials_exception == Unauthorized("Could not validate credentials")
        r == App_decode_token(e, t, token)
    IN IF r.err \in {"JWTError", "RuntimeError"} THEN credentials_exception
       ELSE IF "sub" \notin DOMAIN r.payload THEN credentials_exception
       ELSE LET user == MemoryUserStore_get_by_id(d, r.payload.sub) IN
            IF user = NoRec THEN Unauthorized("User not found")
            ELSE [err |-> None, user |-> user]

\* app: get_current_user (security.py)
App_get_current_user(d, e, t, token) ==
    LET credentials_exception == Unauthorized("Could not validate credentials")
        r == App_decode_token(e, t, token)
    IN IF r.err \in {"JWTError", "RuntimeError"} THEN credentials_exception
       ELSE IF "sub" \notin DOMAIN r.payload THEN credentials_exception
       ELSE LET user == MemoryUserStore_get_by_id(d, r.payload.sub) IN
            IF user = NoRec THEN credentials_exception
            ELSE [err |-> None, user |-> user]

\* api: get_current_user (dependencies.py); returns a UserPublic
Api_get_current_user(d, e, t, token) ==
    LET failure == Unauthorized("Invalid or expired token")
        r == Api_decode_token(e, t, token)
    IN IF r.err # None THEN failure
       ELSE IF "sub" \notin DOMAIN r.payload THEN failure
       ELSE LET record == InMemoryDB_get_user_by_id(d, r.payload.sub) IN
            IF record = NoRec THEN failure
            ELSE IF record.package_tier \notin Tiers THEN failure
            ELSE [err |-> None,
                  user |-> [id |-> record.id, email |-> record.email,
                            package_tier |-> record.package_tier]]

----------------------------------------------------------------------------
(* Tier policy *)

\* limit=None; a limit n is <<n>>
NoLimit == <<>>

Feature(key, label, enabled, limit) ==
    [key |-> key, label |-> label, enabled |-> enabled, limit |-> limit]

\* app: _features_for_tier (main.py)
App_features_for_tier(tier0) ==
    LET tier == IF tier0 = None THEN "" ELSE TierLower(tier0)
        marker == IF tier = "" THEN "free" ELSE tier
    IN << Feature("basic-search", "Basic Search", TRUE, <<100>>),
          Feature("reports", "Reports", tier \in {"pro", "enterprise"},
                  IF tier = "pro" THEN <<10>> ELSE IF tier = "enterprise" THEN <<50>> ELSE NoLimit),
          Feature("export", "Data Export", tier \in {"pro", "enterprise"}, NoLimit),
          Feature("analytics", "Advanced Analytics", tier = "enterprise", NoLimit),
          Feature("tier-" \o marker, "Tier: " \o marker, TRUE, NoLimit) >>

\* api: _features_for (routers/dashboard.py)
Api_features_for(tier) ==
    << Feature("basic_data", "Basic Data", TRUE, NoLimit),
       Feature("support", "Community Support", TRUE, NoLimit) >>
    \o (IF tier \in {"pro", "enterprise"}
        THEN << Feature("pro_data", "Pro Data", TRUE, <<10000>>),
                Feature("priority_support", "Priority Support", TRUE, NoLimit) >>
        ELSE << >>)
    \o (IF tier = "enterprise"
        THEN << Feature("enterprise_data", "Enterprise Data", TRUE, <<100000>>),
                Feature("analytics", "Advanced Analytics", TRUE, NoLimit),
                Feature("sla", "Enterprise SLA", TRUE, NoLimit) >>
        ELSE << >>)

\* An Optional field of a response: Absent is None, Some(x) is the value x
Absent == <<>>
Some(x) == <<x>>

\* The body of a TailoredContentResponse
Content(summary, data_basic, data_pro, data_enterprise, analytics) ==
    [summary |-> summary, data_basic |-> data_basic, data_pro |-> data_pro,
     data_enterprise |-> data_enterprise, analytics |-> analytics]

\* app: the body built by get_content (main.py) from the user's tier
App_content_for(tier0) ==
    LET tier == IF tier0 \in {None, ""} THEN "free" ELSE TierLower(tier0)
    IN Content("Content for " \o tier \o " user",
               <<"overview", "getting-started", "samples">>,
               IF tier \in {"pro", "enterprise"}
               THEN Some(<<"pro-tips", "enhanced-datasets">>) ELSE Absent,
               IF tier = "enterprise"
               THEN Some(<<"enterprise-insights", "priority-roadmap">>) ELSE Absent,
               IF tier = "enterprise"
               THEN Some([dashboards |-> 5, pipeline |-> "real-time", sla |-> "99.9%"])
               ELSE Absent)

\* (faulty variant: every tier but free falls through to the enterprise body)
Api_content_for_no_pro_branch(tier) ==
    LET basic == <<"item-a", "item-b", "item-c">> IN
    IF tier = "free"
    THEN Content("Basic content for Free tier", basic, Absent, Absent, Absent)
    ELSE Content("Full content and analytics for Enterprise tier", basic,
                 Some(<<"pro-x", "pro-y", "pro-z">>), Some(<<"ent-1", "ent-2", "ent-3">>),
                 Some([insights |-> [score |-> 92, segments |-> <<"alpha", "beta">>]]))

\* api: the body built by get_content (routers/package.py) from the user's tier
Api_content_for(tier) ==
    LET basic == <<"item-a", "item-b", "item-c">> IN
    IF tier = "free"
    THEN Content("Basic content for Free tier", basic, Absent, Absent, Absent)
    ELSE IF tier = "pro"
    THEN Content("Expanded content for Pro tier", basic,
                 Some(<<"pro-x", "pro-y", "pro-z">>), Absent, Absent)
    ELSE Content("Full content and analytics for Enterprise tier", basic,
                 Some(<<"pro-x", "pro-y", "pro-z">>), Some(<<"ent-1", "ent-2", "ent-3">>),
                 Some([insights |-> [score |-> 92, segments |-> <<"alpha", "beta">>]]))

----------------------------------------------------------------------------
(* HTTP handlers.  Each returns the table after the request and the        *)
(* response; an exception no handler catches is the framework's 500.       *)

Response(op, status, detail, body) ==
    [op |-> op, status |-> status, detail |-> detail, body |-> body]


NoBody == [none |-> TRUE]

ServerError(op, exc) == Response(op, 500, exc, NoBody)

\* app: signup (main.py); package_tier is None when omitted
App_signup(d, e, t, email, password, package_tier) ==
    LET r == MemoryUserStore_create_user(d, email, password,
                 TierLower(IF package_tier \in {None, ""} THEN "free" ELSE package_tier))
    IN IF r.err = "ValueError"
       THEN [db |-> d, resp |-> Response("signup", 400, "Email already registered", NoBody)]
       ELSE LET tk == App_create_access_token(e, t, r.user) IN
            IF tk.err # None
            THEN [db |-> r.db, resp |-> ServerError("signup", tk.err)]
            ELSE [db |-> r.db, user |-> r.user,
                  resp |-> Response("signup", 201, None, [access_token |-> tk.token])]

\* api: signup (routers/auth.py); payload.email is an EmailStr, package_tier an
\* optional PackageTier
Api_signup(d, e, t, email0, password, package_tier) ==
    LET email == EmailStr(email0)
        existing == InMemoryDB_get_user_by_email(d, email)
    IN IF existing # NoRec
       THEN [db |-> d, resp |-> Response("signup", 400, "Email already registered", NoBody)]
       ELSE LET tier == IF package_tier = None THEN "free" ELSE package_tier
                r == InMemoryDB_create_user(d, email, password, tier)
                tk == Api_create_access_token(e, t, r.user.id, r.user.package_tier)
            IN [db |-> r.db, user |-> r.user,
                resp |-> Response("signup", 201, None, [access_token |-> tk.token])]

\* app: login (main.py)
App_login(d, e, t, email, password) ==
    LET user == MemoryUserStore_authenticate(d, email, password) IN
    IF user = NoRec
    THEN [db |-> d, resp |-> Response("login", 401, "Invalid credentials", NoBody)]
    ELSE LET tk == App_create_access_token(e, t, user) IN
         IF tk.err # None
         THEN [db |-> d, resp |-> ServerError("login", tk.err)]
         ELSE [db |-> d, user |-> user,
               resp |-> Response("login", 200, None, [access_token |-> tk.token])]

\* (faulty variant: the token's subject is not the id of the verified user)
Api_login_wrong_subject(d, e, t, via, email, password) ==
    LET final_email == IF via = "json" THEN EmailStr(email) ELSE email
        record == InMemoryDB_verify_password(d, final_email, password) IN
    IF record = NoRec
    THEN [db |-> d, resp |-> Response("login", 401, "Invalid email or password", NoBody)]
    ELSE LET tk == Api_create_access_token(e, t, d.next_id, record.package_tier) IN
         [db |-> d, user |-> record,
          resp |-> Response("login", 200, None, [access_token |-> tk.token])]

\* api: login (routers/auth.py); the credentials come as a JSON LoginRequest,
\* whose email is an EmailStr, or as form fields, which are plain strings
Api_login(d, e, t, via, email, password) ==
    LET final_email == IF via = "json" THEN EmailStr(email) ELSE email
        record == InMemoryDB_verify_password(d, final_email, password) IN
    IF record = NoRec
    THEN [db |-> d, resp |-> Response("login", 401, "Invalid email or password", NoBody)]
    ELSE LET tk == Api_create_access_token(e, t, record.id, record.package_tier) IN
         [db |-> d, user |-> record,
          resp |-> Response("login", 200, None, [access_token |-> tk.token])]

PublicUser(user) ==
    [id |-> user.id, email |-> user.email, package_tier |-> user.package_tier]

\* app: me (main.py)
App_me(d, e, t, token) ==
    LET cu == App_get_current_user(d, e, t, token) IN
    IF cu.err # None
    THEN [db |-> d, resp |-> Response("me", cu.status, cu.detail, NoBody)]
    ELSE [db |-> d,
          resp |-> Response("me", 200, None,
                            [user |-> PublicUser(cu.user),
                             features |-> App_features_for_tier(cu.user.package_tier)])]

\* api: me (routers/dashboard.py)
Api_me(d, e, t, token) ==
    LET cu == Api_get_current_user(d, e, t, token) IN
    IF cu.err # None
    THEN [db |-> d, resp |-> Response("me", cu.status, cu.detail, NoBody)]
    ELSE [db |-> d,
          resp |-> Response("me", 200, None,
                            [user |-> cu.user,
                             features |-> Api_features_for(cu.user.package_tier)])]

\* app: update_plan (main.py); package_tier is the string of the request
App_update_plan(d, e, t, token, package_tier) ==
    LET cu == App_get_current_user(d, e, t, token) IN
    IF cu.err # None
    THEN [db |-> d, resp |-> Response("update_plan", cu.status, cu.detail, NoBody)]
    ELSE LET new_tier == TierLower(IF package_tier = None THEN "" ELSE package_tier) IN
         IF new_tier \notin {"free", "pro", "enterprise"}
         THEN [db |-> d, resp |-> Response("update_plan", 400, "Invalid plan", NoBody)]
         ELSE LET updated == MemoryUserStore_update_plan(d, cu.user.id, new_tier) IN
              IF updated.user = NoRec
              THEN [db |-> d, resp |-> Response("update_plan", 404, "User not found", NoBody)]
              ELSE [db |-> updated.db,
                    resp |-> Response("update_plan", 200, None,
                                      [package_tier |-> updated.user.package_tier])]

\* api: update_plan (routers/account.py); package_tier is a PackageTier
Api_update_plan(d, e, t, token, package_tier) ==
    LET cu == Api_get_current_user(d, e, t, token) IN
    IF cu.err # None
    THEN [db |-> d, resp |-> Response("update_plan", cu.status, cu.detail, NoBody)]
    ELSE LET updated == InMemoryDB_set_package(d, cu.user.id, package_tier) IN
         IF updated.user = NoRec
         THEN [db |-> d, resp |-> Response("update_plan", 404, "User not found", NoBody)]
         ELSE [db |-> updated.db,
               resp |-> Response("update_plan", 200, None,
                                 [package_tier |-> updated.user.package_tier])]

\* app: get_content (main.py)
App_get_content(d, e, t, token) ==
    LET cu == App_get_current_user(d, e, t, token) IN
    IF cu.err # None
    THEN [db |-> d, resp |-> Response("get_content", cu.status, cu.detail, NoBody)]
    ELSE [db |-> d,
          resp |-> Response("get_content", 200, None, App_content_for(cu.user.package_tier))]

\* api: get_content (routers/package.py)
Api_get_content(d, e, t, token) ==
    LET cu == Api_get_current_user(d, e, t, token) IN
    IF cu.err # None
    THEN [db |-> d, resp |-> Response("get_content", cu.status, cu.detail, NoBody)]
    ELSE [db |-> d,
          resp |-> Response("get_content", 200, None, Api_content_for(cu.user.package_tier))]

----------------------------------------------------------------------------
(* The state machine: one deployed implementation, its environment, the    *)
(* table, the clock (in minutes) and the token a client holds.  Spec runs  *)
(* every request to completion before the next; what a request answers is  *)
(* the resp field of its handler's result.                                 *)
(* created records, for every id, the arguments create_user was called     *)
(* with and the tier of the last set_package/update_plan call that         *)
(* succeeded for it; issued_for is the user record as it was when the held *)
(* token was issued.                                                       *)

Envs == [secret : {None} \cup SecretValues, ttl : {None} \cup TtlOverrides]

NoToken == [kind |-> "none"]

IdleThread == [pc |-> "idle", email |-> Email("a", FALSE, FALSE), password |-> "secret1",
               package_tier |-> None, user |-> NoRec, status |-> 0]

Init ==
    /\ impl \in Impls
    /\ env \in Envs
    /\ db = EmptyDB
    /\ now = 0
    /\ held = [token |-> NoToken, issued_for |-> NoRec]
    /\ created = <<>>
    /\ th = [t \in Threads |-> IdleThread]

\* The key the deployed implementation signs with, if it has one
ServerKey == IF impl = "api" THEN JWT_SECRET(env)
             ELSE IF env.secret = None THEN "k1" ELSE env.secret

\* A payload of the deployed implementation's shape, without a subject
PayloadNoSub ==
    IF impl = "app"
    THEN [email |-> Email("a", FALSE, FALSE),
          package_tier |-> "free", iat |-> now, exp |-> now + 1]
    ELSE [iat |-> now, exp |-> now + 1, pkg |-> "free"]

\* The held token with its expiry pushed back and the old signature
Tampered(token) == [token EXCEPT !.payload.exp = @ + MaxTime + 1]

\* The tokens a client can present: the one it holds, that one tampered with,
\* garbage, one signed with another key, and tokens signed with the server's
\* key elsewhere (no subject, or the id of a user this table does not hold).
Presentable ==
    {held.token, Garbage, jwt_encode(PayloadNoSub, "attacker"),
     jwt_encode(PayloadNoSub, ServerKey)}
    \cup (IF held.token.kind = "jwt" THEN {Tampered(held.token)} ELSE {})
    \cup {jwt_encode([sub |-> i] @@ PayloadNoSub, ServerKey) : i \in Ids \ db.by_id}

\* The client keeps the token it holds or takes the one just issued; r.user
\* is the record the handler issued it for
Keep(r) ==
    IF "access_token" \in DOMAIN r.resp.body
    THEN \/ held' = held
         \/ held' = [token |-> r.resp.body.access_token, issued_for |-> r.user]
    ELSE held' = held

\* The password of the create_user call that made a new record; plan is the
\* tier of the last update_plan that succeeded for it
Record(d, r, password) ==
    IF r.db.next_id = d.next_id THEN created
    ELSE Put(created, d.next_id, [password |-> password, plan |-> None])

\* The deployed implementation's handlers and store operations
signup(email, password, package_tier) ==
    IF impl = "app"
    THEN App_signup(db, env, now, email, password, package_tier)
    ELSE Api_signup(db, env, now, email, password, package_tier)

login(via, email, password) ==
    IF impl = "app"
    THEN App_login(db, env, now, email, password)
    ELSE Api_login(db, env, now, via, email, password)

me(token) ==
    IF impl = "app" THEN App_me(db, env, now, token) ELSE Api_me(db, env, now, token)

update_plan(token, package_tier) ==
    IF impl = "app"
    THEN App_update_plan(db, env, now, token, package_tier)
    ELSE Api_update_plan(db, env, now, token, package_tier)

get_content(token) ==
    IF impl = "app" THEN App_get_content(db, env, now, token)
    ELSE Api_get_content(db, env, now, token)

\* contentFor: the body get_content builds for a tier
content_for(tier) ==
    IF impl = "app" THEN App_content_for(tier) ELSE Api_content_for(tier)

\* validate: decode_token of the deployed implementation
decode_token(token) ==
    IF impl = "app" THEN App_decode_token(env, now, token)
    ELSE Api_decode_token(env, now, token)

\* resolve: get_current_user of the deployed implementation
get_current_user(token) ==
    IF impl = "app" THEN App_get_current_user(db, env, now, token)
    ELSE Api_get_current_user(db, env, now, token)

\* featuresFor: _features_for_tier (main.py), _features_for (routers/dashboard.py)
features_for(tier) ==
    IF impl = "app" THEN App_features_for_tier(tier) ELSE Api_features_for(tier)

\* verifyCredentials: MemoryUserStore.authenticate, InMemoryDB.verify_password
verifyCredentials(d, email, password) ==
    IF impl = "app"
    THEN MemoryUserStore_authenticate(d, email, password)
    ELSE InMemoryDB_verify_password(d, email, password)

\* setTier: MemoryUserStore.update_plan, InMemoryDB.set_package
set_tier(d, user_id, package_tier) ==
    IF impl = "app" THEN MemoryUserStore_update_plan(d, user_id, package_tier)
    ELSE InMemoryDB_set_package(d, user_id, package_tier)

\* The requests a client can send
TierInputs == IF impl = "app" THEN TierStrings ELSE Tiers
LoginForms == IF impl = "app" THEN {"form"} ELSE {"json", "form"}

Signup ==
    \E email \in RawEmails, password \in Passwords,
       package_tier \in {None} \cup TierInputs :
       LET r == signup(email, password, package_tier)
       IN /\ r.db.next_id <= MaxUsers + 1
          /\ db' = r.db
          /\ created' = Record(db, r, password)
          /\ Keep(r)
          /\ UNCHANGED <<impl, env, now, th>>

Login ==
    \E email \in RawEmails, password \in Passwords, via \in LoginForms :
       LET r == login(via, email, password)
       IN /\ db' = r.db
          /\ Keep(r)
          /\ UNCHANGED <<impl, env, now, created, th>>

Me ==
    \E token \in Presentable :
       LET r == me(token)
       IN /\ db' = r.db
          /\ UNCHANGED <<impl, env, now, held, created, th>>

GetContent ==
    \E token \in Presentable :
       LET r == get_content(token)
       IN /\ db' = r.db
          /\ UNCHANGED <<impl, env, now, held, created, th>>

UpdatePlan ==
    \E token \in Presentable, package_tier \in TierInputs :
       LET r == update_plan(token, package_tier)
           t == IF impl = "app" THEN TierLower(package_tier) ELSE package_tier
       IN /\ db' = r.db
          /\ created' = IF r.resp.status = 200
                        THEN [created EXCEPT ![get_current_user(token).user.id].plan = t]
                        ELSE created
          /\ UNCHANGED <<impl, env, now, held, th>>

Tick ==
    /\ now < MaxTime
    /\ now' = now + 1
    /\ UNCHANGED <<impl, env, db, held, created, th>>

Next == Signup \/ Login \/ Me \/ GetContent \/ UpdatePlan \/ Tick

Spec == Init /\ [][Next]_vars

----------------------------------------------------------------------------
(* Concurrent requests.  The handlers are plain "def" functions, which the *)
(* framework runs on a pool of worker threads; neither store takes a lock. *)
(* SpecConc runs two signup requests a statement at a time: th[t] is the   *)
(* request thread t serves, the statement it is at, its local "user" and   *)
(* the status it answered.                                                 *)

At(t, pc) == th[t].pc = pc

Goto(t, pc) == [th EXCEPT ![t].pc = pc]

\* A signup request arrives at thread t
BeginSignup(t) ==
    /\ At(t, "idle")
    /\ \E email \in RawEmails, password \in Passwords,
          package_tier \in {None} \cup Tiers :
          th' = [th EXCEPT ![t] = [pc |-> "check",
                                   email |-> IF impl = "app" THEN email ELSE EmailStr(email),
                                   password |-> password, package_tier |-> package_tier,
                                   user |-> NoRec, status |-> 0]]
    /\ UNCHANGED <<impl, env, db, now, held, created>>

\* app: "if email_key in self._by_email: raise" (storage.py), answered 400 by
\* signup; api: "existing = db.get_user_by_email(...)" and the 400 (routers/auth.py)
CheckEmail(t) ==
    /\ At(t, "check")
    /\ LET taken == IF impl = "app"
                    THEN App_email_taken(db, th[t].email)
                    ELSE InMemoryDB_get_user_by_email(db, th[t].email) # NoRec
       IN th' = IF taken
                THEN [th EXCEPT ![t].pc = "done", ![t].status = 400]
                ELSE Goto(t, "construct")
    /\ UNCHANGED <<impl, env, db, now, held, created>>

\* app: "user = UserRecord(...)"; api: uuid4, urandom, the hash and the record
Construct(t) ==
    /\ At(t, "construct")
    /\ CanAlloc(db)
    /\ LET tier == IF th[t].package_tier = None THEN "free" ELSE th[t].package_tier
           n == IF impl = "app"
                THEN App_new_user(db, th[t].email, th[t].password, tier)
                ELSE Api_new_record(db, th[t].email, th[t].password, tier)
       IN /\ db' = n.db
          /\ th' = [th EXCEPT ![t].pc = "put1", ![t].user = n.user]
          /\ created' = Put(created, n.user.id, [password |-> th[t].password, plan |-> None])
    /\ UNCHANGED <<impl, env, now, held>>

\* app: "self._by_email[email_key] = user"; api: "self.users[user_id] = record"
PutFirst(t) ==
    /\ At(t, "put1")
    /\ db' = IF impl = "app"
             THEN App_put_by_email(db, th[t].email, th[t].user)
             ELSE Api_put_users(db, th[t].user)
    /\ th' = Goto(t, "put2")
    /\ UNCHANGED <<impl, env, now, held, created>>

\* app: "self._by_id[user.id] = user"; api: "self.email_index[...] = user_id"
PutSecond(t) ==
    /\ At(t, "put2")
    /\ db' = IF impl = "app"
             THEN App_put_by_id(db, th[t].user)
             ELSE Api_put_email_index(db, th[t].email, th[t].user)
    /\ th' = Goto(t, "issue")
    /\ UNCHANGED <<impl, env, now, held, created>>

\* "token = create_access_token(...)" and the response
IssueToken(t) ==
    /\ At(t, "issue")
    /\ LET tk == IF impl = "app"
                 THEN App_create_access_token(env, now, th[t].user)
                 ELSE Api_create_access_token(env, now, th[t].user.id,
                                              th[t].user.package_tier)
       IN th' = [th EXCEPT ![t].pc = "done",
                           ![t].status = IF tk.err # None THEN 500 ELSE 201]
    /\ UNCHANGED <<impl, env, db, now, held, created>>

NextConc ==
    \E t \in Threads :
       \/ BeginSignup(t)
       \/ CheckEmail(t)
       \/ Construct(t)
       \/ PutFirst(t)
       \/ PutSecond(t)
       \/ IssueToken(t)

SpecConc == Init /\ [][NextConc]_vars

----------------------------------------------------------------------------
(* A plan update a statement at a time.  SpecPlan runs the two store steps *)
(* of update_plan, the resolve of its get_current_user dependency and the  *)
(* update_plan/set_package call, as separate steps of worker 1, with the   *)
(* other requests served in between.  th[1].user is the user the resolve   *)
(* returned, th[1].package_tier the tier asked for; th[1].status is 404    *)
(* once a plan update was answered "User not found".  The clock stands     *)
(* still: the setTier step reads neither the clock nor the token.          *)

PlanWorker == 1

\* "current_user = Depends(get_current_user)" and, in app, the check of the
\* tier string; a request that fails here is answered 401 or 400 and never
\* gets to the store
ResolveForUpdate(t) ==
    /\ At(t, "idle")
    /\ \E token \in Presentable, package_tier \in TierInputs :
          LET cu == get_current_user(token)
              new_tier == IF impl = "app" THEN TierLower(package_tier) ELSE package_tier
          IN /\ cu.err = None
             /\ new_tier \in {"free", "pro", "enterprise"}
             /\ th' = [th EXCEPT ![t] =
                         [IdleThread EXCEPT !.pc = "settier", !.package_tier = new_tier,
                                            !.user = PublicUser(cu.user)]]
    /\ UNCHANGED <<impl, env, db, now, held, created>>

\* app: "updated = store.update_plan(current_user.id, new_tier)"; api:
\* "updated = db.set_package(user.id, payload.package_tier)"; then the answer
SetTierStep(t) ==
    /\ At(t, "settier")
    /\ LET updated == set_tier(db, th[t].user.id, th[t].package_tier)
       IN /\ db' = updated.db
          /\ th' = [th EXCEPT ![t] =
                      [IdleThread EXCEPT !.status = IF updated.user = NoRec THEN 404 ELSE 0]]
          /\ created' = IF updated.user = NoRec THEN created
                        ELSE [created EXCEPT ![th[t].user.id].plan = th[t].package_tier]
    /\ UNCHANGED <<impl, env, now, held>>

\* The deployments SpecPlan starts from: those with a signing secret and the
\* default time-to-live
InitPlan == Init /\ env.secret # None /\ env.ttl = None

NextPlan ==
    \/ ResolveForUpdate(PlanWorker)
    \/ SetTierStep(PlanWorker)
    \/ Signup
    \/ Login
    \/ UpdatePlan

SpecPlan == InitPlan /\ [][NextPlan]_vars

----------------------------------------------------------------------------
(* Claims *)

\* The normalized (lower-cased, trimmed) form of an e-mail
Normalized(email) == Strip(Lower(email))

\* The records of the table whose normalized e-mail is that of email
RecordsFor(d, email) == {i \in d.by_id : Normalized(d.obj[i].email) = Normalized(email)}

\* C1: when two signup requests for the same normalized e-mail run
\* concurrently and both have answered, exactly one of them created a user,
\* the other was answered 400 (duplicate e-mail), and the table holds exactly
\* one record for that e-mail.
C1_ExactlyOneSignupSucceeds ==
    (/\ \A t \in Threads : At(t, "done")
     /\ Normalized(th[1].email) = Normalized(th[2].email))
    => /\ Cardinality({t \in Threads : th[t].user # NoRec}) = 1
       /\ Cardinality({t \in Threads : th[t].status = 400}) = 1
       /\ Cardinality(RecordsFor(db, th[1].email)) = 1


\* C2: no two records of the table share a normalized e-mail, and a signup
\* whose e-mail is, once normalized, that of a record is answered 400
\* (duplicate e-mail) and leaves the table as it was, whatever the letter
\* case or surrounding whitespace of the e-mail sent.
C2_EmailUnique ==
    /\ \A i, j \in db.by_id :
          i # j => Normalized(db.obj[i].email) # Normalized(db.obj[j].email)
    /\ \A email \in RawEmails, password \in Passwords, tier \in {None} \cup TierInputs :
          RecordsFor(db, email) # {}
          => LET r == signup(email, password, tier)
             IN r.resp.status = 400 /\ r.db = db

\* C2 witness: two users are registered and a signup that spells a registered
\* e-mail in upper case, and one that pads it, are both turned down.
C2_Witness ==
    /\ Cardinality(db.by_id) = 2
    /\ \E e1, e2 \in RawEmails :
          /\ e1.upper /\ e2.pad
          /\ RecordsFor(db, e1) # {} /\ RecordsFor(db, e2) # {}
          /\ signup(e1, "secret1", None).resp.status = 400
          /\ signup(e2, "secret1", None).resp.status = 400

\* The e-mails create_user stores as the e-mail of record id
SpellingsOf(id) ==
    {e \in RawEmails :
        (IF impl = "app" THEN App_email_key(e) ELSE Lower(e)) = db.obj[id].email}

\* C3: for every user created by create_user(email, password), in every later
\* state (other users created, tiers changed), verifyCredentials with that
\* e-mail and that password returns the record with the created user's id.
C3_VerifyAfterCreate ==
    \A id \in db.by_id : \A e \in SpellingsOf(id) :
        verifyCredentials(db, e, created[id].password).id = id

\* C3 witness: the first user is verified after a second user was created and
\* the first user's tier was changed with its token.
C3_Witness ==
    /\ db.by_id = {1, 2}
    /\ held.token.kind = "jwt"
    /\ held.issued_for.id = 1
    /\ held.issued_for.package_tier # db.obj[1].package_tier
    /\ \E e \in SpellingsOf(1) : verifyCredentials(db, e, created[1].password).id = 1

\* The credentials that are not those of a created user
BadCredentials ==
    {c \in RawEmails \X Passwords :
        \A id \in db.by_id : ~(c[1] \in SpellingsOf(id) /\ c[2] = created[id].password)}

\* The credentials with a registered e-mail and another password than the one
\* given at creation, and those with an e-mail no record has
WrongPassword == {c \in BadCredentials : \E id \in db.by_id : c[1] \in SpellingsOf(id)}
Unregistered == {c \in BadCredentials : RecordsFor(db, c[1]) = {}}

\* C4: verifyCredentials returns absent for a created user's e-mail with any
\* other password and for an unregistered e-mail; login answers both with the
\* same response (401, same detail) and neither changes the table.
C4_BadCredentialsAbsent ==
    /\ \A c \in WrongPassword \cup Unregistered :
          /\ verifyCredentials(db, c[1], c[2]) = NoRec
          /\ \A via \in LoginForms :
                LET r == login(via, c[1], c[2])
                IN r.resp.status = 401 /\ r.db = db
    /\ \A c1 \in WrongPassword, c2 \in Unregistered : \A v1, v2 \in LoginForms :
          login(v1, c1[1], c1[2]).resp = login(v2, c2[1], c2[2]).resp

\* C4 witness: a user is registered, a login with its e-mail and another
\* password and a login with an unregistered e-mail are both answered 401.
C4_Witness ==
    /\ db.by_id # {}
    /\ \E c1 \in WrongPassword, c2 \in Unregistered :
          /\ login("form", c1[1], c1[2]).resp.status = 401
          /\ login("form", c2[1], c2[2]).resp.status = 401


\* The tier claim of a payload: "package_tier" (app), "pkg" (api)
TierClaim(payload) == IF impl = "app" THEN payload.package_tier ELSE payload.pkg

\* C5: a token issued for a user and validated before its expiry yields claims
\* whose subject is the user's id and whose tier claim is the user's tier as
\* it was when the token was issued, whatever the user's tier is now.
C5_RoundTrip ==
    (held.token.kind = "jwt" /\ now < held.token.payload.exp)
    => LET r == decode_token(held.token)
       IN /\ r.err = None
          /\ r.payload.sub = held.issued_for.id
          /\ TierClaim(r.payload) = held.issued_for.package_tier

\* C5 witness: a token is validated some time after it was issued and before
\* it expires, when the user's tier is no longer the one it was issued with.
C5_Witness ==
    /\ held.token.kind = "jwt"
    /\ held.token.payload.iat < now /\ now < held.token.payload.exp
    /\ db.obj[held.issued_for.id].package_tier # held.issued_for.package_tier
    /\ decode_token(held.token).err = None

\* C6: a correctly signed token fails validation exactly when exp <= now: at
\* the time equal to its exp and at any later time it fails, at any time
\* strictly before exp it succeeds.
C6_ExpiryExact ==
    held.token.kind = "jwt"
    => ((decode_token(held.token).err # None) <=> (held.token.payload.exp <= now))

\* C6, for the api implementation alone
C6_ExpiryExact_Api == impl = "api" => C6_ExpiryExact

\* A token that fails validation (malformed, bad signature, expired), has no
\* subject, or whose subject is no user of the table
InvalidToken(token) ==
    \/ token.kind # "jwt"
    \/ token.sig # Hmac(ServerKey, token.payload)
    \/ token.payload.exp < now
    \/ "sub" \notin DOMAIN token.payload
    \/ token.payload.sub \notin db.by_id

\* C7: resolve answers every such token with the same failure (401, same
\* detail), so do the handlers behind it, and the table is left as it was.
C7_ResolveFailureUniform ==
    LET bad == {token \in Presentable : InvalidToken(token)} IN
    /\ \A token \in bad :
          /\ get_current_user(token).err = "HTTPException"
          /\ get_current_user(token).status = 401
          /\ me(token).db = db
          /\ \A tier \in TierInputs : update_plan(token, tier).db = db
    /\ \A t1, t2 \in bad :
          /\ get_current_user(t1) = get_current_user(t2)
          /\ me(t1).resp = me(t2).resp

\* C7 witness: the client holds an expired token, the server's secret is set,
\* and an expired, a garbage, a forged, a subject-less and an unknown-subject
\* token are all answered 401.
C7_Witness ==
    /\ env.secret # None
    /\ held.token.kind = "jwt" /\ held.token.payload.exp < now
    /\ Ids \ db.by_id # {}
    /\ Cardinality({token \in Presentable : InvalidToken(token)}) >= 5
    /\ \A token \in Presentable : get_current_user(token).status = 401

\* C8: with no signing secret configured no token is issued and none is
\* accepted, and every token operation reports the configuration error: a
\* signup or login that gets to issuing answers with it, and so does resolve.
C8_NoSecretConfigurationError ==
    env.secret = None
    => /\ \A email \in RawEmails, password \in Passwords, tier \in {None} \cup TierInputs :
             LET r == signup(email, password, tier).resp
             IN r.status = 400 \/ r = ServerError("signup", "RuntimeError")
       /\ \A email \in RawEmails, password \in Passwords, via \in LoginForms :
             LET r == login(via, email, password).resp
             IN r.status = 401 \/ r = ServerError("login", "RuntimeError")
       /\ \A token \in Presentable : get_current_user(token).err = "RuntimeError"

\* C8, for the issuing side of the app implementation alone
C8_AppIssueFails ==
    (impl = "app" /\ env.secret = None)
    => /\ held.token.kind # "jwt"
       /\ \A email \in RawEmails, password \in Passwords, tier \in {None} \cup TierInputs :
             LET r == signup(email, password, tier).resp
             IN r.status = 400 \/ r = ServerError("signup", "RuntimeError")
       /\ \A email \in RawEmails, password \in Passwords :
             LET r == login("form", email, password).resp
             IN r.status = 401 \/ r = ServerError("login", "RuntimeError")

\* A feature list holds a feature with this key, enabled flag and limit
HasFeature(features, key, enabled, limit) ==
    \E i \in DOMAIN features :
       /\ features[i].key = key
       /\ features[i].enabled = enabled
       /\ features[i].limit = limit

\* The held token resolves, to a user whose plan was set
ResolvesAfterSetTier ==
    /\ held.token.kind = "jwt"
    /\ get_current_user(held.token).err = None
    /\ created[held.issued_for.id].plan # None

\* C9, the tier alone: once set_package/update_plan succeeded with tier t for
\* a user, resolve with a valid token of that user returns a record of tier t,
\* and the dashboard shows the features of t.
C9_ResolveReadsStoredTier ==
    ResolvesAfterSetTier
    => LET t == created[held.issued_for.id].plan
           r == me(held.token)
       IN /\ get_current_user(held.token).user.package_tier = t
          /\ r.resp.body.user.package_tier = t
          /\ r.resp.body.features = features_for(t)

\* C9: ... and a signup without a tier stores free, and once the tier was set
\* to pro the user resolved from the old token is shown reports enabled with
\* limit 10.
C9_ResolveAfterSetTier ==
    /\ C9_ResolveReadsStoredTier
    /\ \A email \in RawEmails, password \in Passwords :
          LET r == signup(email, password, None)
          IN r.resp.status = 201 => r.user.package_tier = "free"
    /\ (ResolvesAfterSetTier /\ created[held.issued_for.id].plan = "pro")
       => HasFeature(me(held.token).resp.body.features, "reports", TRUE, <<10>>)

\* C10: the feature table.  Enterprise: reports enabled with limit 50 and
\* analytics enabled; pro: reports enabled with limit 10, analytics disabled;
\* free: reports disabled without a limit; export enabled exactly for pro and
\* enterprise; the first (base) feature is the same, and enabled, for every tier.
C10_FeatureTable ==
    /\ HasFeature(features_for("enterprise"), "reports", TRUE, <<50>>)
    /\ \E l \in {NoLimit} : HasFeature(features_for("enterprise"), "analytics", TRUE, l)
    /\ HasFeature(features_for("pro"), "reports", TRUE, <<10>>)
    /\ HasFeature(features_for("pro"), "analytics", FALSE, NoLimit)
    /\ HasFeature(features_for("free"), "reports", FALSE, NoLimit)
    /\ \A tier \in Tiers :
          /\ HasFeature(features_for(tier), "export", tier \in {"pro", "enterprise"}, NoLimit)
          /\ features_for(tier)[1] = features_for("free")[1]
          /\ features_for(tier)[1].enabled

\* C10, for the app implementation alone
C10_FeatureTable_App == impl = "app" => C10_FeatureTable

\* The keys of a feature list, in order
FeatureKeys(features) == [i \in DOMAIN features |-> features[i].key]

\* The tier values featuresFor can be handed: unset, empty, the three tiers,
\* and strings that are no tier
FeatureTierInputs == {None, ""} \cup TierStrings

\* The tier a marker names: the tier itself, free when unset or unknown
MarkerTier(tier) ==
    IF tier \in {None, ""} THEN "free"
    ELSE IF TierLower(tier) \in Tiers THEN TierLower(tier) ELSE "free"

\* C11: for every tier input the feature list is the base feature, then
\* reports, export, analytics in that order, then exactly one marker feature
\* keyed tier-<tier> and labelled with the tier; the marker is tier-free when
\* the tier is unset or is none of free, pro, enterprise.
C11_FeatureOrderAndMarker ==
    \A tier \in FeatureTierInputs :
        LET features == features_for(tier)
            n == Len(features)
        IN /\ n >= 5
           /\ SubSeq(FeatureKeys(features), n - 3, n)
                = <<"reports", "export", "analytics", "tier-" \o MarkerTier(tier)>>
           /\ features[n].label = "Tier: " \o MarkerTier(tier)
           /\ \A i \in 1..(n - 4) : features[i].enabled
           /\ Cardinality({i \in 1..n : features[i].key = "tier-" \o MarkerTier(tier)}) = 1

\* C11, for the three tiers and the unset tier, in the app implementation
C11_MarkerOfKnownTiers_App ==
    impl = "app" =>
        \A tier \in {None, ""} \cup Tiers :
            LET features == features_for(tier)
            IN FeatureKeys(features)
                 = <<"basic-search", "reports", "export", "analytics",
                     "tier-" \o MarkerTier(tier)>>

\* The tiers a stored record can carry when its content is built
ContentTierInputs == IF impl = "app" THEN {None, ""} \cup TierStrings ELSE Tiers

\* The tier of a tier value, as the handlers read it (lower-cased; free when unset)
TierOf(tier) == IF tier \in {None, ""} THEN "free" ELSE TierLower(tier)

\* A content body has the fields the spec gives to tier
ContentShapedFor(body, tier) ==
    /\ body.data_basic = content_for("free").data_basic
    /\ Len(body.data_basic) > 0
    /\ (body.data_pro # Absent) <=> (TierOf(tier) \in {"pro", "enterprise"})
    /\ (body.data_enterprise # Absent) <=> (TierOf(tier) = "enterprise")
    /\ (body.analytics # Absent) <=> (TierOf(tier) = "enterprise")

\* C12: contentFor always gives the same basic catalog, gives proItems exactly
\* for pro and enterprise, enterpriseItems and analyticsBundle exactly for
\* enterprise; and the content a resolved user is served is that of the tier
\* the table holds for the user.
C12_ContentByTier ==
    /\ \A tier \in ContentTierInputs : ContentShapedFor(content_for(tier), tier)
    /\ \A token \in Presentable :
          get_current_user(token).err = None
          => LET r == get_content(token)
                 tier == db.obj[get_current_user(token).user.id].package_tier
             IN /\ r.resp.status = 200
                /\ r.resp.body = content_for(tier)
                /\ ContentShapedFor(r.resp.body, tier)

\* C12 witness: two users, one of tier pro and one of another tier, and the
\* token held is served the content of its user's tier, which is not the tier
\* the token was issued with.
C12_Witness ==
    /\ db.by_id = {1, 2}
    /\ \E i, j \in db.by_id : db.obj[i].package_tier = "pro" /\ db.obj[j].package_tier # "pro"
    /\ held.token.kind = "jwt"
    /\ get_current_user(held.token).err = None
    /\ db.obj[held.issued_for.id].package_tier \in {"pro", "enterprise"}
    /\ held.issued_for.package_tier = "free"
    /\ get_content(held.token).resp.body.data_pro # Absent

\* Every record of the table has one of the three tiers
TiersClosed(d) == \A i \in d.by_id : d.obj[i].package_tier \in Tiers

\* The tier strings that, lower-cased, are none of the three tiers
UnknownTiers == {t \in TierInputs : TierLower(t) \notin Tiers}

\* C13: in every reachable state each record's tier is free, pro or
\* enterprise; a signup or a plan update that names an unknown tier is turned
\* down (a 4xx answer) and stores nothing.
C13_TierClosedSet ==
    /\ TiersClosed(db)
    /\ \A tier \in UnknownTiers :
          /\ \A email \in RawEmails, password \in Passwords :
                LET r == signup(email, password, tier)
                IN r.resp.status \in 400..499 /\ r.db = db
          /\ \A token \in Presentable :
                LET r == update_plan(token, tier)
                IN r.resp.status \in 400..499 /\ r.db = db

\* C13, for plan updates in both implementations: no plan update stores a
\* tier outside the three, and an unknown tier is answered 400 or 401
C13_UpdatePlanKeepsTiersClosed ==
    \A token \in Presentable, tier \in TierInputs :
        LET r == update_plan(token, tier)
        IN /\ TiersClosed(db) => TiersClosed(r.db)
           /\ tier \in UnknownTiers => (r.resp.status \in {400, 401} /\ r.db = db)

\* C13, for the api implementation alone
C13_TierClosedSet_Api == impl = "api" => C13_TierClosedSet

\* findByEmail and findById of the deployed implementation
find_by_email(d, email) ==
    IF impl = "app" THEN MemoryUserStore_get_by_email(d, email)
    ELSE InMemoryDB_get_user_by_email(d, email)

find_by_id(d, user_id) ==
    IF impl = "app" THEN MemoryUserStore_get_by_id(d, user_id)
    ELSE InMemoryDB_get_user_by_id(d, user_id)

\* Every field of a record is set
FullyConstructed(u) ==
    /\ DOMAIN u = {"id", "email", "salt_hex", "hashed_password", "package_tier"}
    /\ u.id \in Ids
    /\ u.package_tier # None

\* C14: at every step of concurrent createUser calls, a record that a read by
\* e-mail (findByEmail, verifyCredentials) returns is fully constructed and is
\* the record findById returns for its id, and a token a login issues for it
\* resolves.
C14_NoHalfConstructedRecord ==
    \A email \in RawEmails :
        /\ LET u == find_by_email(db, email)
           IN u # NoRec => (FullyConstructed(u) /\ find_by_id(db, u.id) = u)
        /\ \A password \in Passwords :
              /\ LET u == verifyCredentials(db, email, password)
                 IN u # NoRec => find_by_id(db, u.id) = u
              /\ \A via \in LoginForms :
                    LET r == login(via, email, password)
                    IN r.resp.status = 200
                       => get_current_user(r.resp.body.access_token).err = None

\* C14, for the api implementation alone
C14_NoHalfConstructedRecord_Api == impl = "api" => C14_NoHalfConstructedRecord

\* The function a stored credential was derived with, and whether a salt went
\* into it (a credential is the term <<function, password>> or
\* <<function, password, salt>>, never the bare password)
DerivedWith(u) == u.hashed_password[1]
Salted(u) == Len(u.hashed_password) = 3

\* C15: every stored credential is derived from the password and a per-user
\* salt with the slow iterated hash (PBKDF2), is not the plaintext, and two
\* users created with the same password have different stored credentials.
C15_SaltedSlowHash ==
    /\ \A i \in db.by_id :
          /\ DerivedWith(db.obj[i]) = "pbkdf2"
          /\ Salted(db.obj[i])
          /\ db.obj[i].hashed_password[2] = created[i].password
    /\ \A i, j \in db.by_id :
          (i # j /\ created[i].password = created[j].password)
          => db.obj[i].hashed_password # db.obj[j].hashed_password

\* C15, for the api implementation alone
C15_SaltedSlowHash_Api == impl = "api" => C15_SaltedSlowHash

\* Two users were created with the same password
C15_SamePasswordTwice ==
    /\ impl = "api"
    /\ db.by_id = {1, 2}
    /\ created[1].password = created[2].password

\* The time-to-live in force: the override when one is set
ConfiguredTtl(default) == IF env.ttl = None THEN default ELSE IntOf(env.ttl)

\* C16: every issued token has exp = iat + TTL, with iat the time of issue;
\* TTL is the configured override, and 1440 minutes when none is configured.
C16_ExpiryIsIatPlusTtl ==
    /\ held.token.kind = "jwt"
       => held.token.payload.exp = held.token.payload.iat + ConfiguredTtl(1440)
    /\ \A email \in RawEmails, password \in Passwords, via \in LoginForms :
          LET r == login(via, email, password)
          IN r.resp.status = 200
             => LET p == r.resp.body.access_token.payload
                IN p.iat = now /\ p.exp - p.iat = ConfiguredTtl(1440)

\* C16, with the default each implementation has in its code
C16_ExpiryIsIatPlusOwnTtl ==
    held.token.kind = "jwt"
    => held.token.payload.exp = held.token.payload.iat
         + ConfiguredTtl(IF impl = "app" THEN AppDefaultTtl ELSE ApiDefaultTtl)

\* C16, for the app implementation alone
C16_ExpiryIsIatPlusTtl_App == impl = "app" => C16_ExpiryIsIatPlusTtl

\* The ids setTier can be called with: those of the bound and one beyond it
TierCallIds == Ids \cup {MaxUsers + 1}

\* Table d2 is table d1 but for the tier of record id
OnlyTierOf(d1, d2, id) ==
    /\ d2.by_id = d1.by_id
    /\ d2.by_email = d1.by_email
    /\ d2.next_id = d1.next_id
    /\ \A j \in Ids \ {id} : d2.obj[j] = d1.obj[j]
    /\ d2.obj[id].id = d1.obj[id].id
    /\ d2.obj[id].email = d1.obj[id].email
    /\ d2.obj[id].salt_hex = d1.obj[id].salt_hex
    /\ d2.obj[id].hashed_password = d1.obj[id].hashed_password

\* C17: setTier on an existing id returns the record with the new tier and
\* changes nothing but that record's tier, so the user's credentials still
\* verify; on an unknown id it returns absent and changes nothing.  The same
\* holds of a plan update that is answered 200.
C17_SetTierFrame ==
    /\ \A id \in TierCallIds, tier \in Tiers :
          LET r == set_tier(db, id, tier)
          IN IF id \in db.by_id
             THEN /\ r.user # NoRec
                  /\ r.user.id = id /\ r.user.package_tier = tier
                  /\ r.db.obj[id] = r.user
                  /\ OnlyTierOf(db, r.db, id)
                  /\ \A e \in SpellingsOf(id) :
                        verifyCredentials(r.db, e, created[id].password).id = id
             ELSE r.user = NoRec /\ r.db = db
    /\ \A token \in Presentable, tier \in TierInputs :
          LET r == update_plan(token, tier)
          IN IF r.resp.status = 200
             THEN OnlyTierOf(db, r.db, get_current_user(token).user.id)
             ELSE r.db = db

\* C17 witness: two users; the first one's tier was set and is neither the
\* tier it was created with nor the second user's tier, and its credentials
\* verify.
C17_Witness ==
    /\ db.by_id = {1, 2}
    /\ created[1].plan # None
    /\ db.obj[1].package_tier = created[1].plan
    /\ db.obj[1].package_tier # db.obj[2].package_tier
    /\ held.issued_for.id = 1
    /\ held.issued_for.package_tier # db.obj[1].package_tier
    /\ held.issued_for.hashed_password = db.obj[1].hashed_password
    /\ \E e \in SpellingsOf(1) : verifyCredentials(db, e, created[1].password).id = 1

\* C18: the unknown-id (404) answer of update plan is never given: whatever
\* requests are served between the resolve step and the setTier step, setTier
\* with the id of the resolved user finds that user; and no plan update run
\* in one piece is answered 404.
C18_UnknownIdUnreachable ==
    /\ th[PlanWorker].status # 404
    /\ At(PlanWorker, "settier")
       => set_tier(db, th[PlanWorker].user.id, th[PlanWorker].package_tier).user # NoRec
    /\ \A token \in Presentable, tier \in TierInputs :
          update_plan(token, tier).resp.status # 404

\* C18 witness: two users are registered and, between the resolve step and
\* the setTier step of a plan update, another plan update changed the tier of
\* the resolved user.
C18_Witness ==
    /\ At(PlanWorker, "settier")
    /\ db.by_id = {1, 2}
    /\ th[PlanWorker].user.package_tier # db.obj[th[PlanWorker].user.id].package_tier
    /\ set_tier(db, th[PlanWorker].user.id, th[PlanWorker].package_tier).user.id
         = th[PlanWorker].user.id

\* C19: a signup that returns no token (the e-mail is taken, or the token
\* cannot be issued) leaves the table exactly as it was, so the same e-mail
\* can still be registered: with a signing secret in place the same request
\* would not be turned down as a duplicate.
C19_SignupAllOrNothing ==
    \A email \in RawEmails, password \in Passwords, tier \in {None} \cup TierInputs :
        LET r == signup(email, password, tier)
        IN "access_token" \notin DOMAIN r.resp.body
           => /\ r.db = db
              /\ RecordsFor(db, email) = {} => RecordsFor(r.db, email) = {}

\* C19, for the api implementation alone
C19_SignupAllOrNothing_Api == impl = "api" => C19_SignupAllOrNothing

\* C19, for duplicates in both implementations: a signup answered 400 stores
\* nothing
C19_DuplicateStoresNothing ==
    \A email \in RawEmails, password \in Passwords, tier \in {None} \cup TierInputs :
        LET r == signup(email, password, tier)
        IN r.resp.status = 400 => r.db = db

\* A handler's result carries a token whose subject is a user of the table
\* the handler leaves, the user it was issued for
IssuedForExistingUser(r) ==
    "access_token" \in DOMAIN r.resp.body
    => LET sub == r.resp.body.access_token.payload.sub
       IN /\ sub \in r.db.by_id
          /\ sub = r.user.id
          /\ find_by_id(r.db, sub).id = sub

\* C20: every token signup or login issues has as subject the id of a user of
\* the table, and at every time strictly before its expiry, whatever requests
\* were served since, resolve on it returns the record of that id.
C20_TokenSubjectResolves ==
    /\ \A email \in RawEmails, password \in Passwords :
          /\ \A tier \in {None} \cup TierInputs :
                IssuedForExistingUser(signup(email, password, tier))
          /\ \A via \in LoginForms : IssuedForExistingUser(login(via, email, password))
    /\ (held.token.kind = "jwt" /\ now < held.token.payload.exp)
       => LET cu == get_current_user(held.token)
          IN /\ held.token.payload.sub \in db.by_id
             /\ cu.err = None
             /\ cu.user.id = held.token.payload.sub
             /\ cu.user.id = held.issued_for.id
             /\ cu.user.email = held.issued_for.email

\* C20 witness: the token of the first user, issued at time 0, still resolves
\* at a later time before its expiry, after a second user signed up and the
\* first user's tier was changed.
C20_Witness ==
    /\ held.token.kind = "jwt"
    /\ held.token.payload.iat = 0 /\ 0 < now /\ now < held.token.payload.exp
    /\ held.issued_for.id = 1
    /\ db.by_id = {1, 2}
    /\ created[1].plan # None
    /\ get_current_user(held.token).err = None
    /\ get_current_user(held.token).user.id = 1

====
